---- MODULE Spec2Model ----
(***************************************************************************)
(* A model of dcheck-enterprise-runner: the `run` command (cli.py), the    *)
(* specification validator (spec.py), the planner (planner.py), the run    *)
(* loop with its state log, per-table files and summary (runner.py, io.py) *)
(* and the redaction safety belt (redaction.py).                           *)
(*                                                                         *)
(* Strings are TLA+ strings read character by character (At), so that the  *)
(* regular expressions, strip/lower/split and the path formatting of the   *)
(* code are computed, not assumed.  JSON / YAML values are tagged records  *)
(* [t, v]; a mapping is an ordered sequence of [k, v] entries (a Python    *)
(* dict keeps insertion order).                                            *)
(***************************************************************************)
EXTENDS Integers, Sequences, FiniteSets, TLC

(***************************************************************************)
(* Characters and strings                                                  *)
(***************************************************************************)
At(s, i) == SubSeq(s, i, i)

\* the characters of a string, as a sequence
Chars(s) == [i \in 1..Len(s) |-> At(s, i)]

Digits == {"0", "1", "2", "3", "4", "5", "6", "7", "8", "9"}

UpperCase == "ABCDEFGHIJKLMNOPQRSTUVWXYZ"

LowerCase == "abcdefghijklmnopqrstuvwxyz"

UpperSet == {At(UpperCase, i) : i \in 1..Len(UpperCase)}

Letters == UpperSet \cup {At(LowerCase, i) : i \in 1..Len(LowerCase)}

IsLetter(c) == c \in Letters

IsDigit(c) == c \in Digits

IsSpace(c) == c \in {" ", "\t", "\n"}

\* characters in ASCII order; json.dumps(sort_keys=True) orders keys by code point
AsciiOrder == " %+,-./0123456789:@ABCDEFGHIJKLMNOPQRSTUVWXYZ[]_abcdefghijklmnopqrstuvwxyz"

AsciiSet == {At(AsciiOrder, i) : i \in 1..Len(AsciiOrder)}

CodeOf == [c \in AsciiSet |-> CHOOSE i \in 1..Len(AsciiOrder) : At(AsciiOrder, i) = c]

CharCode(c) == IF c \in AsciiSet THEN CodeOf[c] ELSE 0

MaxOf(S) == CHOOSE m \in S : \A n \in S : n <= m

MinOf(S) == CHOOSE m \in S : \A n \in S : m <= n

LowerOf == [c \in UpperSet |-> At(LowerCase, CHOOSE i \in 1..Len(UpperCase) : At(UpperCase, i) = c)]

\* str.lower() of one character
LowerChar(c) == IF c \in UpperSet THEN LowerOf[c] ELSE c

RECURSIVE Lower(_)
Lower(s) == IF s = "" THEN "" ELSE LowerChar(Head(s)) \o Lower(Tail(s))

\* str.strip(): leading and trailing whitespace removed
Strip(s) ==
    LET keep == {i \in 1..Len(s) : ~IsSpace(At(s, i))}
    IN  IF keep = {} THEN "" ELSE SubSeq(s, MinOf(keep), MaxOf(keep))

\* str.split(","): the pieces between commas, empty pieces kept
RECURSIVE SplitComma(_)
SplitComma(s) ==
    LET commas == {i \in 1..Len(s) : At(s, i) = ","}
    IN  IF commas = {} THEN <<s>>
        ELSE LET c == MinOf(commas)
             IN  <<SubSeq(s, 1, c - 1)>> \o SplitComma(SubSeq(s, c + 1, Len(s)))

\* str(i) for a list index
DigitStr(d) == At("0123456789", d + 1)

RECURSIVE IntStr(_)
IntStr(n) == IF n < 10 THEN DigitStr(n) ELSE IntStr(n \div 10) \o DigitStr(n % 10)

\* s < t in Python's string order (by code point, a proper prefix first)
RECURSIVE StrLess(_, _)
StrLess(s, t) ==
    IF t = "" THEN FALSE
    ELSE IF s = "" THEN TRUE
    ELSE IF Head(s) = Head(t) THEN StrLess(Tail(s), Tail(t))
    ELSE CharCode(Head(s)) < CharCode(Head(t))

(***************************************************************************)
(* redaction.py: the three patterns, contains_obvious_pii, redact_string.  *)
(* The matchers read the characters c == Chars(text).                      *)
(***************************************************************************)
\* the last index j >= i-1 such that every character of c[i..j] is in class
RECURSIVE RunEnd(_, _, _)
RunEnd(class, c, i) ==
    IF i <= Len(c) /\ c[i] \in class THEN RunEnd(class, c, i + 1) ELSE i - 1

\* [A-Z0-9._%+-] and [A-Z0-9.-] with IGNORECASE, [\d\s\-]
LocalChars == Letters \cup Digits \cup {".", "_", "%", "+", "-"}

DomainChars == Letters \cup Digits \cup {".", "-"}

PhoneChars == Digits \cup {" ", "\t", "\n", "-"}

IsWordChar(ch) == IsLetter(ch) \/ IsDigit(ch) \/ ch = "_"

\* _EMAIL_RE matched at position i: the index of the match's last character, or 0.
\* [A-Z0-9._%+-]+ @ [A-Z0-9.-]+ \. [A-Z]{2,} with IGNORECASE; greedy, so the
\* domain gives back to the rightmost dot that two letters follow.
EmailEndAt(c, i) ==
    LET le == RunEnd(LocalChars, c, i)
        a  == le + 1
    IN  IF le < i \/ a > Len(c) \/ c[a] # "@" THEN 0
        ELSE LET de   == RunEnd(DomainChars, c, a + 1)
                 dots == {p \in (a + 2)..de :
                            /\ c[p] = "."
                            /\ p + 2 <= Len(c)
                            /\ IsLetter(c[p + 1])
                            /\ IsLetter(c[p + 2])}
             IN  IF dots = {} THEN 0 ELSE RunEnd(Letters, c, MaxOf(dots) + 1)

\* _FNR_RE matched at position i: \b \d{11} \b
FnrEndAt(c, i) ==
    IF /\ i + 10 <= Len(c)
       /\ \A k \in i..(i + 10) : IsDigit(c[k])
       /\ (i = 1 \/ ~IsWordChar(c[i - 1]))
       /\ (i + 10 = Len(c) \/ ~IsWordChar(c[i + 11]))
    THEN i + 10 ELSE 0

\* _PHONE_RE matched at position i: \+? \d [\d\s\-]{6,} \d
PhoneEndAt(c, i) ==
    LET d == IF c[i] = "+" THEN i + 1 ELSE i
    IN  IF d > Len(c) \/ ~IsDigit(c[d]) THEN 0
        ELSE LET re   == RunEnd(PhoneChars, c, d + 1)
                 last == {q \in (d + 7)..re : IsDigit(c[q])}
             IN  IF last = {} THEN 0 ELSE MaxOf(last)

\* the pattern of the given name matched at position i
EndAt(pattern, c, i) ==
    CASE pattern = "email" -> EmailEndAt(c, i)
      [] pattern = "fnr"   -> FnrEndAt(c, i)
      [] OTHER             -> PhoneEndAt(c, i)

\* pattern.search(text); an e-mail address needs an "@", the other two a digit
Search(pattern, c) ==
    /\ IF pattern = "email" THEN \E a \in 1..Len(c) : c[a] = "@"
                            ELSE \E d \in 1..Len(c) : c[d] \in Digits
    /\ \E i \in 1..Len(c) : EndAt(pattern, c, i) > 0

\* pattern.sub(repl, text): leftmost non-overlapping matches replaced
RECURSIVE SubFrom(_, _, _, _)
SubFrom(pattern, c, i, repl) ==
    IF i > Len(c) THEN ""
    ELSE LET e == EndAt(pattern, c, i)
         IN  IF e > 0 THEN repl \o SubFrom(pattern, c, e + 1, repl)
             ELSE c[i] \o SubFrom(pattern, c, i + 1, repl)

\* a text without a match is returned as it is
Sub(pattern, repl, s) ==
    LET c == Chars(s) IN IF Search(pattern, c) THEN SubFrom(pattern, c, 1, repl) ELSE s

contains_obvious_pii(text) ==
    IF text = "" THEN FALSE
    ELSE LET c == Chars(text)
         IN  Search("email", c) \/ Search("phone", c) \/ Search("fnr", c)

\* redact_string with the first substitution only
redact_string_EmailOnly(text) == Sub("email", "[REDACTED_EMAIL]", text)

\* redact_string without the third substitution
redact_string_NoPhone(text) ==
    Sub("fnr", "[REDACTED_FNR]", Sub("email", "[REDACTED_EMAIL]", text))

redact_string(text) ==
    LET t1 == Sub("email", "[REDACTED_EMAIL]", text)
        t2 == Sub("fnr", "[REDACTED_FNR]", t1)
    IN  Sub("phone", "[REDACTED_PHONE]", t2)

(***************************************************************************)
(* JSON values: [t |-> "str" | "num" | "bool" | "null" | "list" | "map", v] *)
(***************************************************************************)
JStr(s) == [t |-> "str", v |-> s]

JNum(n) == [t |-> "num", v |-> n]

JBool(b) == [t |-> "bool", v |-> b]

JNull == [t |-> "null", v |-> ""]

JList(xs) == [t |-> "list", v |-> xs]

JMap(es) == [t |-> "map", v |-> es]

KV(k, val) == [k |-> k, v |-> val]

\* the list of JSON strings for a sequence of strings
JStrs(ss) == JList([i \in 1..Len(ss) |-> JStr(ss[i])])

HasKey(m, k) == \E i \in 1..Len(m.v) : m.v[i].k = k

\* dict.get(k, default)
Get(m, k, default) ==
    IF HasKey(m, k) THEN m.v[CHOOSE i \in 1..Len(m.v) : m.v[i].k = k].v ELSE default

\* d[k] = val: an existing key keeps its place, a new key goes last
Put(m, k, val) ==
    IF HasKey(m, k)
    THEN JMap([i \in 1..Len(m.v) |-> IF m.v[i].k = k THEN KV(k, val) ELSE m.v[i]])
    ELSE JMap(Append(m.v, KV(k, val)))

\* Python truthiness of a JSON value (`x or y`, `if x`)
Truthy(n) ==
    CASE n.t = "null" -> FALSE
      [] n.t = "bool" -> n.v
      [] n.t = "num"  -> n.v # 0
      [] n.t = "str"  -> n.v # ""
      [] OTHER        -> Len(n.v) > 0

\* str(x) of a scalar
StrOf(n) ==
    CASE n.t = "str"  -> n.v
      [] n.t = "null" -> "None"
      [] n.t = "bool" -> IF n.v THEN "True" ELSE "False"
      [] n.t = "num"  -> IntStr(n.v)
      [] OTHER        -> "<object>"

(***************************************************************************)
(* redaction.py: redact_report_payload                                     *)
(***************************************************************************)
\* _walk(x, path) returns the new value and appends the paths of the strings it
\* rewrote to `redactions`; WalkValue is the value, WalkPaths the paths appended,
\* in the order of the walk
\* the walk that rewrites the keys of a mapping as it does the strings
RECURSIVE WalkValue_Keys(_)
WalkValue_Keys(x) ==
    CASE x.t = "str"  -> IF contains_obvious_pii(x.v) THEN JStr(redact_string(x.v)) ELSE x
      [] x.t = "list" -> JList([i \in 1..Len(x.v) |-> WalkValue_Keys(x.v[i])])
      [] x.t = "map"  -> JMap([i \in 1..Len(x.v) |->
                                KV(redact_string(x.v[i].k), WalkValue_Keys(x.v[i].v))])
      [] OTHER        -> x

RECURSIVE WalkValue(_)
WalkValue(x) ==
    CASE x.t = "str"  -> IF contains_obvious_pii(x.v) THEN JStr(redact_string(x.v)) ELSE x
      [] x.t = "list" -> JList([i \in 1..Len(x.v) |-> WalkValue(x.v[i])])
      [] x.t = "map"  -> JMap([i \in 1..Len(x.v) |-> KV(x.v[i].k, WalkValue(x.v[i].v))])
      [] OTHER        -> x

RECURSIVE WalkPaths(_, _), WalkList(_, _, _), WalkDict(_, _, _)
WalkPaths(x, path) ==
    CASE x.t = "str"  -> IF contains_obvious_pii(x.v) THEN <<path>> ELSE <<>>
      [] x.t = "list" -> WalkList(x.v, path, 1)
      [] x.t = "map"  -> WalkDict(x.v, path, 1)
      [] OTHER        -> <<>>

\* [_walk(v, f"{path}[{i}]") for i, v in enumerate(x)], from the n-th element on
WalkList(xs, path, n) ==
    IF n > Len(xs) THEN <<>>
    ELSE WalkPaths(xs[n], path \o "[" \o IntStr(n - 1) \o "]") \o WalkList(xs, path, n + 1)

\* for k, v in x.items(): kp = f"{path}.{k}" if path else str(k); _walk(v, kp),
\* from the n-th entry on
WalkDict(es, path, n) ==
    IF n > Len(es) THEN <<>>
    ELSE WalkPaths(es[n].v, IF path # "" THEN path \o "." \o es[n].k ELSE es[n].k)
            \o WalkDict(es, path, n + 1)

\* (new_payload, redactions)
redact_report_payload(payload) ==
    [val |-> WalkValue(payload), paths |-> WalkPaths(payload, "")]

(***************************************************************************)
(* io.py: write_json serialises with sort_keys=True                        *)
(***************************************************************************)
\* the entries of a mapping ordered by key
RECURSIVE SortEntries(_)
SortEntries(es) ==
    IF es = <<>> THEN <<>>
    ELSE LET m    == CHOOSE i \in 1..Len(es) :
                        \A j \in 1..Len(es) : j = i \/ StrLess(es[i].k, es[j].k)
             rest == [j \in 1..(Len(es) - 1) |-> IF j < m THEN es[j] ELSE es[j + 1]]
         IN  <<es[m]>> \o SortEntries(rest)

\* the JSON document json.dumps(data, sort_keys=True) denotes
RECURSIVE JsonDump(_)
JsonDump(x) ==
    CASE x.t = "list" -> JList([i \in 1..Len(x.v) |-> JsonDump(x.v[i])])
      [] x.t = "map"  ->
            LET es == SortEntries(x.v)
            IN  JMap([i \in 1..Len(es) |-> KV(es[i].k, JsonDump(es[i].v))])
      [] OTHER -> x

(***************************************************************************)
(* runner.py: pure helpers                                                 *)
(***************************************************************************)
_SCHEMA_VERSION == "dcheck-enterprise-run-report/v1"

\* _utc_now(): an ISO-8601 UTC timestamp; the clock is not modelled, its format is
_utc_now == "2026-11-04T16:28:00+00:00"

StatusNames == <<"ok", "warning", "error", "fail">>

\* _status_counts(results): a mapping of the four tokens to counts
_status_counts(results) ==
    LET n(tok) == Cardinality({i \in 1..Len(results) :
                      Lower(StrOf(Get(results[i], "status", JStr("")))) = tok})
    IN  JMap([i \in 1..Len(StatusNames) |-> KV(StatusNames[i], JNum(n(StatusNames[i])))])

\* _should_fail without the membership test
_should_fail_Any(counts, fail_on) ==
    \E i \in 1..Len(counts.v) : counts.v[i].v.v > 0

\* _should_fail(counts, fail_on)
_should_fail(counts, fail_on) ==
    LET fail_on_set == {Lower(fail_on[i]) : i \in 1..Len(fail_on)}
    IN  \E i \in 1..Len(counts.v) : counts.v[i].k \in fail_on_set /\ counts.v[i].v.v > 0

\* str.replace(old, new) for a one-character `old`
RECURSIVE Replace(_, _, _)
Replace(s, old, new) ==
    IF s = "" THEN ""
    ELSE (IF Head(s) = old THEN new ELSE Head(s)) \o Replace(Tail(s), old, new)

_safe_table_filename(table_name) ==
    Replace(Replace(Replace(table_name, "/", "_"), ":", "_"), ".", "__") \o ".json"

\* one result record of the report: getattr(r, ...) with the `or {}` of metrics
ResultJson(r) ==
    JMap(<<KV("name", r.name), KV("status", r.status), KV("message", r.message),
           KV("metrics", IF Truthy(r.metrics) THEN r.metrics ELSE JMap(<<>>))>>)

\* _serialize_report(report_obj, table_name=, modules=, config=, audit=)
_serialize_report(report_obj, table_name, modules, config, audit) ==
    LET results_json == [i \in 1..Len(report_obj.results) |-> ResultJson(report_obj.results[i])]
        counts == _status_counts(results_json)
    IN  JMap(<<
          KV("schema_version", JStr(_SCHEMA_VERSION)),
          KV("table", JMap(<<KV("name", JStr(table_name))>>)),
          KV("execution", JMap(<<KV("modules", JStrs(modules)), KV("config", config)>>)),
          KV("dataset", JMap(<<KV("rows", report_obj.rows),
                               KV("columns", report_obj.columns),
                               KV("column_names",
                                  IF Truthy(report_obj.column_names)
                                  THEN report_obj.column_names ELSE JNull)>>)),
          KV("summary", JMap(<<KV("status_counts", counts)>>)),
          KV("results", JList(results_json)),
          KV("audit", audit),
          KV("generated_utc", JStr(_utc_now))>>)

(***************************************************************************)
(* spec.py: load_and_validate_spec.  A result is [ok, val]; ok = FALSE is  *)
(* a raised SpecError.                                                     *)
(***************************************************************************)
_ALLOWED_STATUSES == {"ok", "warning", "error", "fail"}

Ok(val) == [ok |-> TRUE, val |-> val]

SpecError == [ok |-> FALSE, val |-> "SpecError"]

\* the strings of a JSON list of strings
StrsOf(xs) == [i \in 1..Len(xs) |-> xs[i].v]

AllStrings(n) == n.t = "list" /\ \A i \in 1..Len(n.v) : n.v[i].t = "str"

\* [s.strip() for s in ss if s.strip()]
RECURSIVE Stripped(_)
Stripped(ss) ==
    IF ss = <<>> THEN <<>>
    ELSE (IF Strip(Head(ss)) # "" THEN <<Strip(Head(ss))>> ELSE <<>>) \o Stripped(Tail(ss))

\* [s.strip().lower() for s in ss if s.strip()]
StrippedLower(ss) == [i \in 1..Len(Stripped(ss)) |-> Lower(Stripped(ss)[i])]

\* x or default
OrElse(n, default) == IF Truthy(n) THEN n ELSE default

\* _parse_run(run, path)
_parse_run(run) ==
    IF run.t # "map" THEN SpecError
    ELSE
    LET run_id      == OrElse(Get(run, "id", JNull), JStr("dcheck-run"))
        output_path == OrElse(Get(run, "output_path", JNull),
                              OrElse(Get(run, "output", JNull), JStr("./out")))
        fail_on0    == Get(run, "fail_on", JStrs(<<"error">>))
        fail_on     == IF fail_on0.t = "str"
                       THEN JStrs(StrippedLower(SplitComma(fail_on0.v)))
                       ELSE fail_on0
    IN  IF ~AllStrings(fail_on) THEN SpecError
        ELSE
        LET fail_on_norm == StrippedLower(StrsOf(fail_on.v))
            unknown == {i \in 1..Len(fail_on_norm) : fail_on_norm[i] \notin _ALLOWED_STATUSES}
        IN  IF unknown # {} THEN SpecError
            ELSE Ok([id                |-> StrOf(run_id),
                     output_path       |-> StrOf(output_path),
                     fail_on           |-> IF fail_on_norm # <<>> THEN fail_on_norm
                                           ELSE <<"error">>,
                     continue_on_error |-> Truthy(Get(run, "continue_on_error", JBool(TRUE))),
                     allow_pii_output  |-> Truthy(Get(run, "allow_pii_output", JBool(FALSE)))])

\* one entry of _parse_tables' loop
ParseTable(t) ==
    IF t.t # "map" THEN SpecError
    ELSE
    LET name     == Get(t, "name", JNull)
        modules0 == Get(t, "modules", JStrs(<<"core_quality">>))
        modules  == IF modules0.t = "str"
                    THEN JStrs(Stripped(SplitComma(modules0.v)))
                    ELSE modules0
        config0  == Get(t, "config", JMap(<<>>))
        config   == IF config0.t = "null" THEN JMap(<<>>) ELSE config0
    IN  IF ~Truthy(name) \/ name.t # "str" THEN SpecError
        ELSE IF ~AllStrings(modules) THEN SpecError
        ELSE IF config.t # "map" THEN SpecError
        ELSE Ok([name    |-> name.v,
                 modules |-> Stripped(StrsOf(modules.v)),
                 config  |-> config])

\* _parse_tables(tables, path)
_parse_tables(tables) ==
    IF tables.t = "null" THEN SpecError
    ELSE IF tables.t # "list" THEN SpecError
    ELSE IF \E i \in 1..Len(tables.v) : ~ParseTable(tables.v[i]).ok THEN SpecError
    ELSE Ok([i \in 1..Len(tables.v) |-> ParseTable(tables.v[i]).val])

\* load_and_validate_spec without the test for an empty list
load_and_validate_spec_AllowsEmpty(data) ==
    IF data.t # "map" THEN SpecError
    ELSE LET run    == _parse_run(Get(data, "run", JMap(<<>>)))
             tables == _parse_tables(Get(data, "tables", JList(<<>>)))
         IN  IF ~run.ok \/ ~tables.ok THEN SpecError
             ELSE Ok([run |-> run.val, tables |-> tables.val])

\* load_and_validate_spec(path), on the value yaml.safe_load returned
load_and_validate_spec(data) ==
    IF data.t # "map" THEN SpecError
    ELSE LET run    == _parse_run(Get(data, "run", JMap(<<>>)))
             tables == _parse_tables(Get(data, "tables", JNull))
         IN  IF ~run.ok \/ ~tables.ok THEN SpecError
             ELSE IF tables.val = <<>> THEN SpecError
             ELSE Ok([run |-> run.val, tables |-> tables.val])

(***************************************************************************)
(* planner.py                                                              *)
(***************************************************************************)
\* build_plan(spec): one TableJob per table, in order
build_plan(spec) ==
    [i \in 1..Len(spec.tables) |->
        [name |-> spec.tables[i].name, modules |-> spec.tables[i].modules,
         config |-> spec.tables[i].config]]

(***************************************************************************)
(* Bounds and the inputs drawn from them                                   *)
(***************************************************************************)
\* the longest `tables` list of a specification
MaxTables == 3

\* the command is invoked at most this many times on one output directory
MaxRuns == 2

\* and again only while the state log is at most this long
MaxLog == 4

\* the value of --limit when it is given
LimitN == 2

\* table names; "s.t" and "s__t" share a file name, "s.t" occurs twice in some plans
Names == <<"s.t", "s__t", "u/v">>

\* a well-formed `tables` entry for each name: name only; name and modules as a
\* comma-separated string; name, modules as a list and a null config
TableEntry(n) ==
    CASE n = 1 -> JMap(<<KV("name", JStr(Names[1]))>>)
      [] n = 2 -> JMap(<<KV("name", JStr(Names[2])), KV("modules", JStr("core_quality, gdpr"))>>)
      [] OTHER -> JMap(<<KV("name", JStr(Names[3])),
                         KV("modules", JStrs(<<"gdpr">>)), KV("config", JNull)>>)

\* the sequences over 1..Len(Names) of length 1..MaxTables in which a name is
\* first used only after the names before it (plans up to renaming)
RECURSIVE PlansOfLen(_)
PlansOfLen(n) ==
    IF n = 0 THEN {<<>>}
    ELSE {Append(p, k) : p \in PlansOfLen(n - 1), k \in 1..Len(Names)} 

FirstUseOrdered(p) ==
    \A i \in 1..Len(p) : p[i] = 1 \/ \E j \in 1..(i - 1) : p[j] = p[i] - 1

Plans == {p \in UNION {PlansOfLen(n) : n \in 1..MaxTables} : FirstUseOrdered(p)}

TablesOf(p) == JList([i \in 1..Len(p) |-> TableEntry(p[i])])

\* the `run` section: continue_on_error absent (true) or false
RunSections ==
    {JMap(<<KV("id", JStr("x")), KV("output_path", JStr("./out"))>>),
     JMap(<<KV("id", JStr("x")), KV("continue_on_error", JBool(FALSE))>>)}

\* specifications that validate
ValidDocs == {JMap(<<KV("run", r), KV("tables", TablesOf(p))>>) : r \in RunSections, p \in Plans}

\* specifications that do not: `tables` missing, null, not a list, empty, with an
\* entry that is no mapping or has no name; `run` no mapping; an unknown status
BadTables ==
    {JNull, JStr("s.t"), JMap(<<KV("name", JStr("s.t"))>>), JList(<<>>),
     JList(<<TableEntry(1), JStr("s.t")>>),
     JList(<<JMap(<<KV("modules", JStr("gdpr"))>>)>>),
     JList(<<JMap(<<KV("name", JStr(""))>>), TableEntry(1)>>)}

InvalidDocs ==
    {JMap(<<KV("run", r), KV("tables", t)>>) : r \in RunSections, t \in BadTables}
    \cup {JMap(<<KV("run", r)>>) : r \in RunSections}
    \cup {JMap(<<KV("run", JStr("x")), KV("tables", TablesOf(<<1>>))>>),
          JMap(<<KV("run", JMap(<<KV("fail_on", JStr("error,bogus"))>>)),
                 KV("tables", TablesOf(<<1>>))>>),
          JList(<<>>)}

Docs == ValidDocs \cup InvalidDocs

\* `run` sections that set allow_pii_output and fail_on
ReportRuns ==
    {JMap(<<>>),
     JMap(<<KV("allow_pii_output", JBool(TRUE))>>),
     JMap(<<KV("fail_on", JStr("error, FAIL")), KV("continue_on_error", JBool(FALSE))>>),
     JMap(<<KV("fail_on", JStrs(<<" Warning ">>)), KV("allow_pii_output", JBool(TRUE))>>)}

\* values of `modules` that name no module: an empty list, a string of
\* separators, a list of blanks
BlankModules == {JList(<<>>), JStr(" , "), JStrs(<<" ">>)}

BlankModulesEntry(m) == JMap(<<KV("name", JStr(Names[1])), KV("modules", m)>>)

\* specifications of one table with these sections, one that does not validate,
\* and those whose table has a `modules` that names no module
ReportDocs ==
    {JMap(<<KV("run", r), KV("tables", TablesOf(<<n>>))>>) : r \in ReportRuns, n \in {1, 3}}
    \cup {JMap(<<KV("run", JMap(<<KV("fail_on", JStrs(<<"bogus">>))>>)),
                 KV("tables", TablesOf(<<1>>))>>)}
    \cup {JMap(<<KV("run", JMap(<<>>)), KV("tables", JList(<<BlankModulesEntry(m)>>))>>) :
             m \in BlankModules}

\* the command lines of one invocation: plain, --resume, --limit N, --dry-run
Option(resume, limit, dry_run) ==
    [resume |-> resume, limit |-> limit, dry_run |-> dry_run,
     fail_on |-> JNull, allow_pii_output |-> FALSE]

Options ==
    {Option(FALSE, JNull, FALSE), Option(TRUE, JNull, FALSE),
     Option(FALSE, JNum(LimitN), FALSE), Option(FALSE, JNull, TRUE)}

\* command lines with --allow-pii-output and --fail-on
ReportOptions ==
    {Option(FALSE, JNull, FALSE),
     [Option(FALSE, JNull, FALSE) EXCEPT !.allow_pii_output = TRUE],
     [Option(FALSE, JNull, FALSE) EXCEPT !.fail_on = JStr("ERROR, bogus")],
     [Option(FALSE, JNull, FALSE) EXCEPT !.fail_on = JStr(",")]}

\* what the engine may return for a table: a report object
Result(name, status, message, metrics) ==
    [name |-> JStr(name), status |-> status, message |-> message, metrics |-> metrics]

Report(results) ==
    [rows |-> JNum(3), columns |-> JNum(2), column_names |-> JStrs(<<"id", "email">>),
     results |-> results]

R_ok == Report(<<Result("nulls", JStr("ok"), JStr("no nulls"), JNull),
                 Result("range", JStr("Warning"), JStr("3 rows out of range"), JNull)>>)

R_error == Report(<<Result("nulls", JStr("ok"), JStr("no nulls"), JNull),
                    Result("format", JStr("ERROR"), JStr("bad value a@b.no"), JNull)>>)

BasicReports == {R_ok, R_error}

\* the example counts of the specification: {ok:3, warning:1} and {ok:3, error:1}
R_3ok1warn == Report(<<Result("a", JStr("ok"), JStr(""), JNull),
                       Result("b", JStr("ok"), JStr(""), JNull),
                       Result("c", JStr("ok"), JStr(""), JNull),
                       Result("d", JStr("warning"), JStr("late"), JNull)>>)

R_3ok1err == Report(<<Result("a", JStr("ok"), JStr(""), JNull),
                      Result("b", JStr("ok"), JStr(""), JNull),
                      Result("c", JStr("ok"), JStr(""), JNull),
                      Result("d", JStr("error"), JStr("fnr 01019012345"), JNull)>>)

\* statuses in other cases, a phone number in a message
R_case == Report(<<Result("a", JStr("FAIL"), JStr("call +47 911 22 334"), JNull),
                   Result("b", JStr("Warning"), JStr("late"), JNull)>>)

\* statuses outside the four tokens: a fifth word, None, a token with a blank
R_odd == Report(<<Result("a", JStr("skipped"), JStr(""), JNull),
                  Result("b", JNull, JNull, JNull),
                  Result("c", JStr("error "), JStr(""), JNull)>>)

\* metrics keyed by the values found, and a list of samples
R_keys == Report(<<Result("freq", JStr("ok"), JStr("most frequent values"),
                          JMap(<<KV("x@y.no", JStr("seen by +47 911 22 334")),
                                 KV("samples", JStrs(<<"z@w.com", "n/a">>))>>))>>)

\* no results at all
R_none == Report(<<>>)

RichReports == {R_3ok1warn, R_3ok1err, R_case, R_odd, R_keys, R_none}

AllReports == BasicReports \cup RichReports

\* the jobs the well-formed table entries give
AllJobs ==
    {ParseTable(TableEntry(n)).val : n \in 1..Len(Names)}
    \cup {ParseTable(BlankModulesEntry(m)).val : m \in BlankModules}

\* build_audit_metadata(): the audit block, with the values of one host
build_audit_metadata ==
    JMap(<<KV("timestamp_utc", JStr(_utc_now)), KV("user", JStr("runner")),
           KV("host", JStr("node-1")),
           KV("platform", JStr("Linux-6.1.0-x86_64-with-glibc2.36")),
           KV("python", JStr("3.11.4")),
           KV("env", JMap(<<KV("databricks_runtime_version", JNull),
                            KV("cluster_id", JNull), KV("job_id", JNull)>>)),
           KV("versions", JMap(<<KV("dcheck", JStr("0.4.1")),
                                 KV("dcheck-gdpr", JStr("not-installed")),
                                 KV("dcheck-enterprise-runner", JStr("0.1.0"))>>))>>)

(***************************************************************************)
(* State                                                                   *)
(***************************************************************************)
VARIABLES
    pc,             \* "cli" | "run" | "loop" | "engine" | "finish" | "exit"
    doc,            \* the YAML document at --spec
    engine,         \* the reports the external engine may return
    opts,           \* the command line of the current process
    spec,           \* the validated specification after the overrides
    jobs,           \* run_from_spec: the plan, cut to --limit
    completed,      \* run_from_spec: the names with a `completed` record
    run_summary,    \* run_from_spec: the summary object
    overall_failed, \* run_from_spec: overall_failed
    idx,            \* the number of jobs the loop has gone through
    rc,             \* the exit code of the process, -1 while it runs
    runs,           \* the number of processes started so far
    calls,          \* the tables the engine was invoked for by this process
    logStart,       \* the length of the state log when this process started
    writes,         \* the files this process has written, in order
    outDir,         \* the output directory exists
    stateLog,       \* run_state.jsonl: its records, in order
    tableFiles,     \* tables/<name>.json: path -> JSON document
    summaryFile,    \* summary.json: <<>> when absent, else <<the summary>>
    arg,            \* a call of redact_report_payload on its own: the argument
    res             \* and what it returned, NoCall before the call

vars == <<pc, doc, engine, opts, spec, jobs, completed, run_summary, overall_failed,
          idx, rc, runs, calls, logStart, writes, outDir, stateLog, tableFiles, summaryFile,
          arg, res>>

\* the variables of a call of the redaction on its own
lib == <<arg, res>>

NoCall == [t |-> "none", v |-> ""]

mem == <<spec, jobs, completed, run_summary, overall_failed, idx, calls>>

disk == <<outDir, stateLog, tableFiles, summaryFile>>

NoSpec == [run |-> [id |-> "", output_path |-> "", fail_on |-> <<>>,
                    continue_on_error |-> TRUE, allow_pii_output |-> FALSE],
           tables |-> <<>>]

NoSummary == [run |-> [id |-> "", finished_utc |-> ""], tables_total |-> 0,
              tables_completed |-> 0, tables_failed |-> 0, tables_skipped |-> 0,
              table_results |-> <<>>]

FreshProcess ==
    /\ spec = NoSpec /\ jobs = <<>> /\ completed = {} /\ run_summary = NoSummary
    /\ overall_failed = FALSE /\ idx = 0 /\ rc = -1 /\ calls = <<>> /\ writes = <<>>

InitWith(docs, reports, options) ==
    /\ pc = "cli"
    /\ doc \in docs
    /\ engine = reports
    /\ opts \in options
    /\ FreshProcess
    /\ logStart = 0
    /\ runs = 1
    /\ outDir = FALSE /\ stateLog = <<>> /\ summaryFile = <<>>
    /\ tableFiles = [p \in {} |-> JNull]
    /\ arg = NoCall /\ res = NoCall

Init == InitWith(Docs, BasicReports, Options)

\* one table, every kind of report, the options that bear on the written file
InitReport == InitWith(ReportDocs, AllReports, ReportOptions)

(***************************************************************************)
(* cli.py: run_cmd                                                         *)
(***************************************************************************)
\* the CLI overrides applied to the validated specification
Overridden(sp, o) ==
    LET fail_on == IF o.fail_on.t # "null"
                   THEN StrippedLower(SplitComma(o.fail_on.v))
                   ELSE sp.run.fail_on
        allow   == IF o.allow_pii_output THEN TRUE ELSE sp.run.allow_pii_output
    IN  [sp EXCEPT !.run.fail_on = fail_on, !.run.allow_pii_output = allow]

\* the command that makes the output directory before it validates
RunCmdInvalid_Touches ==
    /\ pc = "cli"
    /\ ~load_and_validate_spec(doc).ok
    /\ pc' = "exit"
    /\ rc' = 1
    /\ outDir' = TRUE
    /\ writes' = Append(writes, "out_dir")
    /\ UNCHANGED <<lib, runs, doc, engine, opts, mem, logStart, stateLog, tableFiles,
                   summaryFile>>

\* load_and_validate_spec raises: the process ends before anything is written
RunCmdInvalid ==
    /\ pc = "cli"
    /\ ~load_and_validate_spec(doc).ok
    /\ pc' = "exit"
    /\ rc' = 1
    /\ UNCHANGED <<lib, runs, doc, engine, opts, mem, logStart, writes, disk>>

\* --dry-run: the plan is printed, nothing is run or written
RunCmdDry ==
    /\ pc = "cli"
    /\ load_and_validate_spec(doc).ok
    /\ opts.dry_run
    /\ spec' = Overridden(load_and_validate_spec(doc).val, opts)
    /\ pc' = "exit"
    /\ rc' = 0
    /\ UNCHANGED <<lib, runs, doc, engine, opts, jobs, completed, run_summary, overall_failed, idx,
                   calls, logStart, writes, disk>>

\* validation passed: run_from_spec is called with the overridden specification
RunCmd ==
    /\ pc = "cli"
    /\ load_and_validate_spec(doc).ok
    /\ ~opts.dry_run
    /\ spec' = Overridden(load_and_validate_spec(doc).val, opts)
    /\ pc' = "run"
    /\ UNCHANGED <<lib, runs, doc, engine, opts, jobs, completed, run_summary, overall_failed, idx,
                   rc, calls, logStart, writes, disk>>

(***************************************************************************)
(* io.py and the files under the output directory                          *)
(***************************************************************************)
StatePath == "run_state.jsonl"

SummaryPath == "summary.json"

TablePath(name) == "tables/" \o _safe_table_filename(name)

\* append_jsonl(path, rec): one more line at the end of the file
append_jsonl(log, rec) == Append(log, rec)

\* write_json(path, data) on the per-table files: the file holds the document
\* json.dumps made of the data, whatever it held before
write_json(files, path, document) ==
    [q \in DOMAIN files \cup {path} |-> IF q = path THEN document ELSE files[q]]

\* one record of the state log
Event(table, status, extras) ==
    JMap(<<KV("ts_utc", JStr(_utc_now)), KV("table", JStr(table)),
           KV("status", JStr(status))>> \o extras)

Field(rec, k) == Get(rec, k, JNull).v

(***************************************************************************)
(* runner.py: run_from_spec                                                *)
(***************************************************************************)
\* jobs[:limit]
Slice(js, limit) ==
    IF limit.t = "null" THEN js
    ELSE IF limit.v >= 0
         THEN SubSeq(js, 1, IF limit.v < Len(js) THEN limit.v ELSE Len(js))
         ELSE SubSeq(js, 1, IF Len(js) + limit.v > 0 THEN Len(js) + limit.v ELSE 0)

\* the names with a `completed` record that is not marked failed
ReadCompleted_Unfailed(log) ==
    {Field(log[i], "table") :
        i \in {j \in 1..Len(log) : /\ Field(log[j], "status") = "completed"
                                   /\ Get(log[j], "failed", JNull) # JBool(TRUE)}}

\* the names with a record of status `completed` in the log
ReadCompleted(log) ==
    {Field(log[i], "table") : i \in {j \in 1..Len(log) : Field(log[j], "status") = "completed"}}

\* the set `completed` with the test of `resume` inverted
CompletedAtStart_Inverted(resume, log) == IF resume THEN {} ELSE ReadCompleted(log)

\* the set `completed` at the start of a run
CompletedAtStart(resume, log) == IF resume THEN ReadCompleted(log) ELSE {}

\* the run_summary object at the start of a run
NewSummary(sp, js) ==
    [run |-> [id |-> sp.run.id, finished_utc |-> ""],
     tables_total |-> Len(js), tables_completed |-> 0, tables_failed |-> 0,
     tables_skipped |-> 0, table_results |-> <<>>]

\* BeginRun where a run without --resume starts the state log afresh
BeginRun_Fresh ==
    /\ pc = "run"
    /\ outDir' = TRUE
    /\ writes' = Append(writes, "out_dir")
    /\ jobs' = Slice(build_plan(spec), opts.limit)
    /\ completed' = CompletedAtStart(opts.resume, stateLog)
    /\ run_summary' = NewSummary(spec, jobs')
    /\ overall_failed' = FALSE
    /\ idx' = 0
    /\ pc' = IF jobs' = <<>> THEN "finish" ELSE "loop"
    /\ stateLog' = IF opts.resume THEN stateLog ELSE <<>>
    /\ UNCHANGED <<lib, runs, doc, engine, opts, spec, rc, calls, logStart, tableFiles, summaryFile>>

\* lines 51-93: the output directory, the plan, the completed set, the summary
BeginRun ==
    /\ pc = "run"
    /\ outDir' = TRUE
    /\ writes' = Append(writes, "out_dir")
    /\ jobs' = Slice(build_plan(spec), opts.limit)
    /\ completed' = CompletedAtStart(opts.resume, stateLog)
    /\ run_summary' = NewSummary(spec, jobs')
    /\ overall_failed' = FALSE
    /\ idx' = 0
    /\ pc' = IF jobs' = <<>> THEN "finish" ELSE "loop"
    /\ UNCHANGED <<lib, runs, doc, engine, opts, spec, rc, calls, logStart, stateLog, tableFiles,
                   summaryFile>>

\* where the loop goes after the job at idx + 1: on to the next job, or out
AfterJob(stop) == IF stop \/ idx + 1 >= Len(jobs) THEN "finish" ELSE "loop"

\* the skip that does not count the table
SkipJob_Uncounted ==
    /\ pc = "loop"
    /\ jobs[idx + 1].name \in completed
    /\ stateLog' = append_jsonl(stateLog,
                      Event(jobs[idx + 1].name, "skipped", <<KV("reason", JStr("resume"))>>))
    /\ writes' = Append(writes, StatePath)
    /\ idx' = idx + 1
    /\ pc' = AfterJob(FALSE)
    /\ UNCHANGED <<lib, runs, doc, engine, opts, spec, jobs, completed, run_summary,
                   overall_failed, rc, calls, logStart, outDir, tableFiles, summaryFile>>

\* lines 96-99: the job's name is in `completed`
SkipJob ==
    /\ pc = "loop"
    /\ jobs[idx + 1].name \in completed
    /\ run_summary' = [run_summary EXCEPT !.tables_skipped = @ + 1]
    /\ stateLog' = append_jsonl(stateLog,
                      Event(jobs[idx + 1].name, "skipped", <<KV("reason", JStr("resume"))>>))
    /\ writes' = Append(writes, StatePath)
    /\ idx' = idx + 1
    /\ pc' = AfterJob(FALSE)
    /\ UNCHANGED <<lib, runs, doc, engine, opts, spec, jobs, completed, overall_failed, rc, calls,
                   logStart, outDir, tableFiles, summaryFile>>

\* the `started` record numbered from 0
StartJob_ZeroBased ==
    /\ pc = "loop"
    /\ jobs[idx + 1].name \notin completed
    /\ stateLog' = append_jsonl(stateLog,
                      Event(jobs[idx + 1].name, "started",
                            <<KV("index", JNum(idx)), KV("total", JNum(Len(jobs)))>>))
    /\ writes' = Append(writes, StatePath)
    /\ pc' = "engine"
    /\ UNCHANGED <<lib, runs, doc, engine, opts, mem, rc, logStart, outDir, tableFiles, summaryFile>>

\* lines 101-105: the `started` record, then the engine is called
StartJob ==
    /\ pc = "loop"
    /\ jobs[idx + 1].name \notin completed
    /\ stateLog' = append_jsonl(stateLog,
                      Event(jobs[idx + 1].name, "started",
                            <<KV("index", JNum(idx + 1)), KV("total", JNum(Len(jobs)))>>))
    /\ writes' = Append(writes, StatePath)
    /\ pc' = "engine"
    /\ UNCHANGED <<lib, runs, doc, engine, opts, mem, rc, logStart, outDir, tableFiles, summaryFile>>

_PATHS_CAP == 200

\* lines 116-124: the `redaction` block, set when something was redacted
Marked(r) ==
    IF r.paths # <<>>
    THEN [val |-> Put(r.val, "redaction",
                      Put(Put(Put(Get(r.val, "redaction", JMap(<<>>)),
                          "applied", JBool(TRUE)),
                          "reason", JStr("allow_pii_output=false")),
                          "paths", JStrs(SubSeq(r.paths, 1,
                                     IF Len(r.paths) < _PATHS_CAP THEN Len(r.paths)
                                     ELSE _PATHS_CAP)))),
          paths |-> r.paths]
    ELSE r

\* the redaction applied whatever allow_pii_output says
Redacted_Always(payload, allow_pii_output) == Marked(redact_report_payload(payload))

\* lines 113-124: the payload that is written and the redaction events
Redacted(payload, allow_pii_output) ==
    IF allow_pii_output THEN [val |-> payload, paths |-> <<>>]
    ELSE Marked(redact_report_payload(payload))

\* line 128: the status counts the decision is made on
CountsOf(payload) ==
    LET sc == Get(Get(payload, "summary", JMap(<<>>)), "status_counts", JNull)
    IN  IF Truthy(sc) THEN sc
        ELSE _status_counts(Get(payload, "results", JList(<<>>)).v)

\* lines 126-128: the document written to the table's file, the redaction
\* events and the status counts
Written(red) ==
    [file |-> JsonDump(red.val), paths |-> red.paths, counts |-> CountsOf(red.val)]

\* lines 111-128 for one report and one job
WriteOutcome(report, job, allow_pii_output) ==
    Written(Redacted(_serialize_report(report, job.name, job.modules, job.config,
                                       build_audit_metadata),
                     allow_pii_output))

\* WriteOutcome tabulated over the reports and jobs of the model, so that a step
\* of the loop looks the outcome up instead of computing it again
OutcomeTable ==
    {[report |-> r, job |-> j, allow |-> a, out |-> WriteOutcome(r, j, a)] :
        r \in AllReports, j \in AllJobs, a \in BOOLEAN}

Outcome(report, job, allow_pii_output) ==
    (CHOOSE m \in OutcomeTable :
        m.report = report /\ m.job = job /\ m.allow = allow_pii_output).out

\* the loop never left early, and the loop left after every failed table
StopsLoop_Never(failed) == FALSE

StopsLoop_Always(failed) == failed

\* lines 148 and 168: the loop is left after a failed table
StopsLoop(failed) == failed /\ ~spec.run.continue_on_error

\* the loop that adds the table to `completed` when it has completed
TableDone_Remembers(job, path, out, failed) ==
    /\ pc = "engine"
    /\ calls' = Append(calls, job.name)
    /\ tableFiles' = write_json(tableFiles, path, out.file)
    /\ run_summary' = [run_summary EXCEPT
                         !.tables_completed = @ + 1,
                         !.table_results = Append(@,
                            JMap(<<KV("table", JStr(job.name)),
                                   KV("output_file", JStr(path)),
                                   KV("status_counts", out.counts),
                                   KV("duration_sec", JNum(0)),
                                   KV("failed", JBool(failed)),
                                   KV("redaction_applied", JBool(out.paths # <<>>))>>)),
                         !.tables_failed = IF failed THEN @ + 1 ELSE @]
    /\ stateLog' = append_jsonl(stateLog,
                      Event(job.name, "completed", <<KV("failed", JBool(failed))>>))
    /\ writes' = writes \o <<path, StatePath>>
    /\ overall_failed' = (overall_failed \/ failed)
    /\ completed' = completed \cup {job.name}
    /\ idx' = idx + 1
    /\ pc' = AfterJob(StopsLoop(failed))
    /\ UNCHANGED <<lib, runs, doc, engine, opts, spec, jobs, rc, logStart, outDir,
                   summaryFile>>

\* lines 126-149: the file is written, the table is counted and recorded, and
\* the loop goes on or stops
TableDone(job, path, out, failed) ==
    /\ pc = "engine"
    /\ calls' = Append(calls, job.name)
    /\ tableFiles' = write_json(tableFiles, path, out.file)
    /\ run_summary' = [run_summary EXCEPT
                         !.tables_completed = @ + 1,
                         !.table_results = Append(@,
                            JMap(<<KV("table", JStr(job.name)),
                                   KV("output_file", JStr(path)),
                                   KV("status_counts", out.counts),
                                   KV("duration_sec", JNum(0)),
                                   KV("failed", JBool(failed)),
                                   KV("redaction_applied", JBool(out.paths # <<>>))>>)),
                         !.tables_failed = IF failed THEN @ + 1 ELSE @]
    /\ stateLog' = append_jsonl(stateLog,
                      Event(job.name, "completed", <<KV("failed", JBool(failed))>>))
    /\ writes' = writes \o <<path, StatePath>>
    /\ overall_failed' = (overall_failed \/ failed)
    /\ idx' = idx + 1
    /\ pc' = AfterJob(StopsLoop(failed))
    /\ UNCHANGED <<lib, runs, doc, engine, opts, spec, jobs, completed, rc, logStart, outDir,
                   summaryFile>>

\* the outcome of lines 111-128 and the decision of line 129 on its counts
Decided(job, out) ==
    TableDone(job, TablePath(job.name), out, _should_fail(out.counts, spec.run.fail_on))

\* lines 109-149: the engine returns a report
EngineReturns(report) ==
    Decided(jobs[idx + 1], Outcome(report, jobs[idx + 1], spec.run.allow_pii_output))

\* what the engine may raise: f"{type(e).__name__}: {e}"
EngineErrors == {"RuntimeError: table not found"}

\* the except branch without `overall_failed = True`
EngineRaises_Quiet(e) ==
    LET job   == jobs[idx + 1]
        entry == JMap(<<KV("table", JStr(job.name)), KV("output_file", JNull),
                        KV("status_counts", JMap(<<KV("error", JNum(1))>>)),
                        KV("duration_sec", JNum(0)), KV("failed", JBool(TRUE)),
                        KV("exception", JStr(e))>>)
    IN  /\ pc = "engine"
        /\ calls' = Append(calls, job.name)
        /\ run_summary' = [run_summary EXCEPT
                             !.tables_failed = @ + 1,
                             !.table_results = Append(@, entry)]
        /\ stateLog' = append_jsonl(stateLog, Event(job.name, "error", <<KV("error", JStr(e))>>))
        /\ writes' = Append(writes, StatePath)
        /\ idx' = idx + 1
        /\ pc' = AfterJob(StopsLoop(TRUE))
        /\ UNCHANGED <<lib, runs, doc, engine, opts, spec, jobs, completed, overall_failed, rc,
                       logStart, outDir, tableFiles, summaryFile>>

\* lines 109, 151-169: the engine raises
EngineRaises(e) ==
    LET job   == jobs[idx + 1]
        entry == JMap(<<KV("table", JStr(job.name)), KV("output_file", JNull),
                        KV("status_counts", JMap(<<KV("error", JNum(1))>>)),
                        KV("duration_sec", JNum(0)), KV("failed", JBool(TRUE)),
                        KV("exception", JStr(e))>>)
    IN  /\ pc = "engine"
        /\ calls' = Append(calls, job.name)
        /\ overall_failed' = TRUE
        /\ run_summary' = [run_summary EXCEPT
                             !.tables_failed = @ + 1,
                             !.table_results = Append(@, entry)]
        /\ stateLog' = append_jsonl(stateLog, Event(job.name, "error", <<KV("error", JStr(e))>>))
        /\ writes' = Append(writes, StatePath)
        /\ idx' = idx + 1
        /\ pc' = AfterJob(StopsLoop(TRUE))
        /\ UNCHANGED <<lib, runs, doc, engine, opts, spec, jobs, completed, rc, logStart, outDir,
                       tableFiles, summaryFile>>

\* the return code without the test of overall_failed
ReturnCode_Zero(failed) == 0

\* line 177
ReturnCode(failed) == IF failed THEN 1 ELSE 0

\* the summary written as it is, without the finish timestamp
Finish_Unstamped ==
    /\ pc = "finish"
    /\ summaryFile' = <<run_summary>>
    /\ writes' = Append(writes, SummaryPath)
    /\ rc' = ReturnCode(overall_failed)
    /\ pc' = "exit"
    /\ UNCHANGED <<lib, runs, doc, engine, opts, mem, logStart, outDir, stateLog, tableFiles>>

\* lines 171-177: the summary is stamped and written, the process exits
Finish ==
    /\ pc = "finish"
    /\ run_summary' = [run_summary EXCEPT !.run.finished_utc = _utc_now]
    /\ summaryFile' = <<run_summary'>>
    /\ writes' = Append(writes, SummaryPath)
    /\ rc' = ReturnCode(overall_failed)
    /\ pc' = "exit"
    /\ UNCHANGED <<lib, runs, doc, engine, opts, spec, jobs, completed, overall_failed, idx, calls,
                   logStart, outDir, stateLog, tableFiles>>

\* the specification file as the operator may have edited it between two
\* invocations: the same tables and the `run` section rewritten or left alone,
\* or the `tables` list emptied
Edited(d) ==
    {d} \cup (IF d.t = "map" /\ HasKey(d, "run") /\ HasKey(d, "tables")
              THEN {Put(d, "run", r) : r \in RunSections}
                   \cup {Put(d, "tables", JList(<<>>))}
              ELSE {})

\* the command is run again, over the files the earlier processes left
NewProcess ==
    /\ pc = "exit"
    /\ runs < MaxRuns
    /\ Len(stateLog) <= MaxLog
    /\ runs' = runs + 1
    /\ pc' = "cli"
    /\ opts' \in Options
    /\ spec' = NoSpec /\ jobs' = <<>> /\ completed' = {} /\ run_summary' = NoSummary
    /\ overall_failed' = FALSE /\ idx' = 0 /\ rc' = -1 /\ calls' = <<>> /\ writes' = <<>>
    /\ logStart' = Len(stateLog)
    /\ doc' \in Edited(doc)
    /\ UNCHANGED <<lib, engine, disk>>

\* line 109: the call of the engine raises or returns a report
EngineStep ==
    \/ \E e \in EngineErrors : EngineRaises(e)
    \/ \E report \in engine : EngineReturns(report)

Next ==
    \/ RunCmdInvalid
    \/ RunCmdDry
    \/ RunCmd
    \/ BeginRun
    \/ SkipJob
    \/ StartJob
    \/ EngineStep
    \/ Finish
    \/ NewProcess

Spec == Init /\ [][Next]_vars

SpecReport == InitReport /\ [][Next]_vars

\* the steps of run_from_spec; the command being run again is up to the operator
Step == BeginRun \/ SkipJob \/ StartJob \/ EngineStep \/ Finish

\* run_from_spec, once called, runs on, and every call of the engine returns or
\* raises
LiveSpec == Init /\ [][Next]_vars /\ WF_vars(Step)

(***************************************************************************)
(* redaction.py called on its own: redact_string on a text and             *)
(* redact_report_payload on a JSON value                                   *)
(***************************************************************************)
\* the longest text, in fragments
MaxFragments == 3

\* the deepest JSON value
MaxDepth == 2

\* what the texts are made of: an address, the tail of one, an 11-digit number,
\* a spaced phone number, a prefix, a letter, a blank, a dot
Fragments == <<"a@b.no", "@x.no", "01019012345", "911 22 334", "+4", "x", " ", ".">>

RECURSIVE TextsOfLen(_)
TextsOfLen(n) ==
    IF n = 0 THEN {""}
    ELSE {t \o Fragments[k] : t \in TextsOfLen(n - 1), k \in 1..Len(Fragments)}

Texts == UNION {TextsOfLen(n) : n \in 0..MaxFragments}

\* leaves of every JSON type, and the empty containers
Atoms ==
    {JStr("a@b.no"), JStr("n/a"), JStr("id 01019012345"), JNum(7), JBool(TRUE), JNull,
     JList(<<>>), JMap(<<>>)}

\* the values put next to a nested value
Siblings == {JStr("+47 911 22 334"), JNum(0), JNull}

\* JSON values of depth up to d: an atom, or a list or a mapping around a value
\* of depth up to d - 1
RECURSIVE Trees(_)
Trees(d) ==
    IF d = 0 THEN Atoms
    ELSE Atoms
         \cup {JList(<<x>>) : x \in Trees(d - 1)}
         \cup {JList(<<l, x>>) : l \in Siblings, x \in Trees(d - 1)}
         \cup {JMap(<<KV("samples", x)>>) : x \in Trees(d - 1)}
         \cup {JMap(<<KV("x@y.no", x)>>) : x \in Trees(d - 1)}
         \cup {JMap(<<KV("value", x), KV("k", l)>>) : l \in Siblings, x \in Trees(d - 1)}

Call(fn, x) == [fn |-> fn, x |-> x]

LibCalls ==
    {Call("redact_string", JStr(t)) : t \in Texts}
    \cup {Call("redact_report_payload", x) : x \in Trees(MaxDepth)}

Returns(val) == [t |-> "return", v |-> val]

Raises(e) == [t |-> "raise", v |-> e]

\* no process of the command is running: a caller is about to make one call
InitLib ==
    /\ pc = "lib"
    /\ arg \in LibCalls
    /\ res = NoCall
    /\ doc = JNull /\ engine = {} /\ opts = Option(FALSE, JNull, FALSE)
    /\ FreshProcess
    /\ logStart = 0 /\ runs = 1
    /\ outDir = FALSE /\ stateLog = <<>> /\ summaryFile = <<>>
    /\ tableFiles = [p \in {} |-> JNull]

\* contains_obvious_pii(text) and redact_string(text)
CallRedactString ==
    /\ pc = "lib" /\ res = NoCall
    /\ arg.fn = "redact_string"
    /\ res' = Returns([pii  |-> contains_obvious_pii(arg.x.v),
                     text |-> redact_string(arg.x.v)])
    /\ UNCHANGED <<arg, pc, doc, engine, opts, mem, rc, runs, logStart, writes, disk>>

\* redact_report_payload(payload) on a mapping: (new_payload, redactions); the
\* walk builds new lists and mappings and leaves the argument as it was
PayloadReturns ==
    /\ pc = "lib" /\ res = NoCall
    /\ arg.fn = "redact_report_payload"
    /\ arg.x.t = "map"
    /\ res' = Returns(redact_report_payload(arg.x))
    /\ UNCHANGED <<arg, pc, doc, engine, opts, mem, rc, runs, logStart, writes, disk>>

\* line 66: assert isinstance(new_payload, dict)
PayloadAsserts ==
    /\ pc = "lib" /\ res = NoCall
    /\ arg.fn = "redact_report_payload"
    /\ arg.x.t # "map"
    /\ res' = Raises("AssertionError")
    /\ UNCHANGED <<arg, pc, doc, engine, opts, mem, rc, runs, logStart, writes, disk>>

\* line 66 under `python -O`, which compiles assert statements out: the value
\* the walk made is returned whatever its type
PayloadUnchecked ==
    /\ pc = "lib" /\ res = NoCall
    /\ arg.fn = "redact_report_payload"
    /\ arg.x.t # "map"
    /\ res' = Returns(redact_report_payload(arg.x))
    /\ UNCHANGED <<arg, pc, doc, engine, opts, mem, rc, runs, logStart, writes, disk>>

NextLib == CallRedactString \/ PayloadReturns \/ PayloadAsserts \/ PayloadUnchecked

SpecLib == InitLib /\ [][NextLib]_vars

(***************************************************************************)
(* Properties of the orchestration                                         *)
(***************************************************************************)
Range(q) == {q[i] : i \in 1..Len(q)}

Last(q) == q[Len(q)]

IsPrefix(p, q) == Len(p) <= Len(q) /\ SubSeq(q, 1, Len(p)) = p

\* the state log the current process found, and the records it has appended
OldLog == SubSeq(stateLog, 1, logStart)

NewRecords == SubSeq(stateLog, logStart + 1, Len(stateLog))

\* run_from_spec has begun its loop, or has returned
InRun == pc \in {"loop", "engine", "finish"}

Returned == pc = "exit" /\ SummaryPath \in Range(writes)

\* the table names with a `completed` record in the log the process found
CompletedBefore ==
    {Get(OldLog[i], "table", JNull).v :
        i \in {j \in 1..Len(OldLog) : Get(OldLog[j], "status", JNull) = JStr("completed")}}

\* the names a run skips: those completed before, when --resume is given
Skippable == IF opts.resume THEN CompletedBefore ELSE {}

StatusOf(rec) == Get(rec, "status", JNull)

TableOf(rec) == Get(rec, "table", JNull)

IsSkip(rec, name) ==
    /\ StatusOf(rec) = JStr("skipped")
    /\ Get(rec, "reason", JNull) = JStr("resume")
    /\ TableOf(rec) = JStr(name)

Failed(entry) == Get(entry, "failed", JNull) = JBool(TRUE)

Results == run_summary.table_results

\* the jobs the loop has gone through that were not skipped, in order
RECURSIVE Executed(_)
Executed(js) ==
    IF js = <<>> THEN <<>>
    ELSE (IF Head(js).name \in Skippable THEN <<>> ELSE <<Head(js).name>>) \o Executed(Tail(js))

\* C1 as stated: after a run with --resume, every planned job whose table has a
\* `completed` record in the log found at the start was not handed to the engine
\* and has a `skipped` record with reason `resume` among the records of the run.
C1_EveryCompletedJobSkipped ==
    (Returned /\ opts.resume) =>
        \A i \in 1..Len(jobs) :
            jobs[i].name \in CompletedBefore =>
                /\ jobs[i].name \notin Range(calls)
                /\ \E k \in 1..Len(NewRecords) : IsSkip(NewRecords[k], jobs[i].name)

\* C1, amended: in a run with --resume the engine is never invoked for a table
\* with a `completed` record in the log found at the start, and every such job
\* the loop has reached has its own `skipped` record with reason `resume`; a job
\* after the point where the loop stopped gets no record.
C1_ResumeSkipsReachedJobs ==
    ((InRun \/ Returned) /\ opts.resume) =>
        /\ \A n \in CompletedBefore : n \notin Range(calls)
        /\ \A i \in 1..idx :
              jobs[i].name \in CompletedBefore =>
                  Cardinality({k \in 1..Len(NewRecords) : IsSkip(NewRecords[k], jobs[i].name)})
                    = Cardinality({j \in 1..idx : jobs[j].name = jobs[i].name})

\* a resumed run that skipped one table and ran another
C1_Witness ==
    /\ Returned /\ opts.resume /\ calls # <<>>
    /\ \E i \in 1..idx :
          /\ jobs[i].name \in CompletedBefore
          /\ \E k \in 1..Len(NewRecords) : IsSkip(NewRecords[k], jobs[i].name)

\* C2: with continue_on_error false a failed table is the last one the loop
\* handles: its entry is the last of table_results, its record the last of the
\* log, the loop is over, the entries are those of the executed jobs up to it and
\* no more, the records those of the jobs up to it, and the return code is 1; of
\* three tables run where the second fails, table_results holds the first two.
C2_StopsAtFirstFailure ==
    ((InRun \/ Returned) /\ ~spec.run.continue_on_error) =>
        /\ \A k \in 1..Len(Results) :
              Failed(Results[k]) =>
                  /\ k = Len(Results)
                  /\ pc \in {"finish", "exit"}
                  /\ idx >= 1 /\ TableOf(Results[k]) = JStr(jobs[idx].name)
                  /\ TableOf(Last(stateLog)) = JStr(jobs[idx].name)
                  /\ StatusOf(Last(stateLog)) \in {JStr("completed"), JStr("error")}
                  /\ Last(calls) = jobs[idx].name
                  /\ (pc = "exit" => rc = 1)
        /\ [k \in 1..Len(Results) |-> TableOf(Results[k]).v] = Executed(SubSeq(jobs, 1, idx))
        /\ calls = Executed(SubSeq(jobs, 1, idx))
        /\ Len(NewRecords) = run_summary.tables_skipped + 2 * Len(Results)
                                + (IF pc = "engine" THEN 1 ELSE 0)
        /\ (Returned /\ Len(jobs) = 3 /\ Skippable = {} /\ Len(Results) >= 2
              /\ Failed(Results[2])) =>
                 [k \in 1..Len(Results) |-> TableOf(Results[k]).v]
                    = <<jobs[1].name, jobs[2].name>>

\* three tables, none skipped, the second failed: two entries and return code 1
C2_Witness ==
    /\ Returned /\ ~spec.run.continue_on_error /\ Len(jobs) = 3 /\ Skippable = {}
    /\ Len(Results) = 2 /\ ~Failed(Results[1]) /\ Failed(Results[2]) /\ rc = 1

\* C3: run_from_spec returns 1 exactly when some entry of table_results has
\* failed = true, and 0 otherwise, however many tables were skipped.
C3_ReturnCode ==
    Returned => rc = (IF \E k \in 1..Len(Results) : Failed(Results[k]) THEN 1 ELSE 0)

\* a run that skipped a table and failed on another
C3_Witness ==
    /\ Returned /\ rc = 1 /\ run_summary.tables_skipped > 0
    /\ \E k \in 1..Len(Results) : Failed(Results[k])

\* C7: when the engine raises for a table, the step appends one `error` record
\* for the table carrying the error's kind and message, appends one entry with
\* failed = true and output_file null, sets overall_failed, counts the table as
\* failed and not as completed, and writes no per-table file and no `completed`
\* record.
C7_EngineRaises ==
    [][\A e \in EngineErrors :
          (pc = "engine" /\ EngineRaises(e)) =>
              LET name == jobs[idx + 1].name
                  rec  == Last(stateLog')
                  ent  == Last(run_summary'.table_results)
              IN  /\ stateLog' = Append(stateLog, rec)
                  /\ StatusOf(rec) = JStr("error") /\ TableOf(rec) = JStr(name)
                  /\ Get(rec, "error", JNull) = JStr(e)
                  /\ run_summary'.table_results = Append(Results, ent)
                  /\ TableOf(ent) = JStr(name) /\ Failed(ent)
                  /\ HasKey(ent, "output_file") /\ Get(ent, "output_file", JStr("")) = JNull
                  /\ overall_failed'
                  /\ run_summary'.tables_failed = run_summary.tables_failed + 1
                  /\ run_summary'.tables_completed = run_summary.tables_completed
                  /\ tableFiles' = tableFiles]_vars

\* the first table of a run raised: an `error` record, a failed entry, no file
C7_Witness ==
    /\ InRun /\ Len(Results) = 1 /\ overall_failed
    /\ HasKey(Results[1], "exception") /\ Failed(Results[1])
    /\ StatusOf(Last(stateLog)) = JStr("error")
    /\ run_summary.tables_completed = 0 /\ run_summary.tables_failed = 1

\* the records of a run in which every job was processed: one `skipped` record
\* for a job that is skipped, else `started` followed by `completed` or `error`
RECURSIVE Processed(_, _)
Processed(recs, js) ==
    IF js = <<>> THEN recs = <<>>
    ELSE IF Head(js).name \in Skippable
         THEN /\ recs # <<>>
              /\ IsSkip(recs[1], Head(js).name)
              /\ Processed(Tail(recs), Tail(js))
         ELSE /\ Len(recs) >= 2
              /\ StatusOf(recs[1]) = JStr("started") /\ TableOf(recs[1]) = JStr(Head(js).name)
              /\ StatusOf(recs[2]) \in {JStr("completed"), JStr("error")}
              /\ TableOf(recs[2]) = JStr(Head(js).name)
              /\ Processed(SubSeq(recs, 3, Len(recs)), Tail(js))

AllProcessed ==
    /\ Returned
    /\ idx = Len(jobs)
    /\ Processed(NewRecords, jobs)
    /\ summaryFile = <<run_summary>>

\* C8: a run with continue_on_error true goes through every job of the plan,
\* failed tables or not, and then returns with the summary written.
C8_ContinueOnError ==
    /\ [](pc = "run" /\ spec.run.continue_on_error => <>Returned)
    /\ [](Returned /\ spec.run.continue_on_error => AllProcessed)

\* a run that went on after its first table failed
C8_Witness ==
    /\ AllProcessed /\ spec.run.continue_on_error
    /\ Len(jobs) >= 2 /\ Len(Results) >= 2 /\ Failed(Results[1])

TablesIn(d) == Get(d, "tables", JNull)

WellFormedEntry(t) ==
    /\ t.t = "map"
    /\ Get(t, "name", JNull).t = "str" /\ Get(t, "name", JNull).v # ""
    /\ LET m == Get(t, "modules", JList(<<>>))
       IN  m.t = "str" \/ (m.t = "list" /\ \A i \in 1..Len(m.v) : m.v[i].t = "str")
    /\ Get(t, "config", JNull).t \in {"null", "map"}

WellFormed(d) ==
    /\ d.t = "map"
    /\ Get(d, "run", JMap(<<>>)).t = "map" /\ ~HasKey(Get(d, "run", JMap(<<>>)), "fail_on")
    /\ TablesIn(d).t = "list" /\ TablesIn(d).v # <<>>
    /\ \A i \in 1..Len(TablesIn(d).v) : WellFormedEntry(TablesIn(d).v[i])

NamesIn(d) == [i \in 1..Len(TablesIn(d).v) |-> Get(TablesIn(d).v[i], "name", JNull).v]

\* C10: validation fails when `tables` is missing, not a list or empty, and the
\* command then exits with 1 having written nothing; for well-formed entries it
\* succeeds, tables and plan carry the names of the input in its order, one job
\* per entry, and an entry without `modules` gets [core_quality].
C10_Validation ==
    LET bad == doc.t = "map" /\ (TablesIn(doc).t # "list" \/ TablesIn(doc).v = <<>>)
    IN  /\ pc = "cli" =>
              LET r == load_and_validate_spec(doc)
              IN  /\ bad => ~r.ok
                  /\ WellFormed(doc) =>
                        /\ r.ok
                        /\ [i \in 1..Len(r.val.tables) |-> r.val.tables[i].name] = NamesIn(doc)
                        /\ [i \in 1..Len(build_plan(r.val)) |-> build_plan(r.val)[i].name]
                              = NamesIn(doc)
                        /\ \A i \in 1..Len(NamesIn(doc)) :
                              ~HasKey(TablesIn(doc).v[i], "modules") =>
                                  build_plan(r.val)[i].modules = <<"core_quality">>
        /\ bad => (pc \in {"cli", "exit"} /\ (pc = "exit" => (rc = 1 /\ writes = <<>>)))
        /\ (InRun /\ opts.limit = JNull /\ WellFormed(doc)) =>
              /\ [i \in 1..Len(jobs) |-> jobs[i].name] = NamesIn(doc)
              /\ \A i \in 1..Len(jobs) :
                    ~HasKey(TablesIn(doc).v[i], "modules") =>
                        jobs[i].modules = <<"core_quality">>

\* three entries, the first without `modules`, planned in the order of the input
C10_Witness ==
    /\ pc = "loop" /\ opts.limit = JNull /\ WellFormed(doc)
    /\ Len(jobs) = 3 /\ [i \in 1..3 |-> jobs[i].name] = NamesIn(doc)
    /\ jobs[1].modules = <<"core_quality">>
    /\ jobs[1].name # jobs[2].name

(***************************************************************************)
(* Properties of the written per-table file                                *)
(***************************************************************************)
\* the string values at the leaves of a JSON value, and its mapping keys
RECURSIVE Leaves(_)
Leaves(x) ==
    CASE x.t = "str"  -> {x.v}
      [] x.t = "list" -> UNION {Leaves(x.v[i]) : i \in 1..Len(x.v)}
      [] x.t = "map"  -> UNION {Leaves(x.v[i].v) : i \in 1..Len(x.v)}
      [] OTHER        -> {}

RECURSIVE KeysIn(_)
KeysIn(x) ==
    CASE x.t = "list" -> UNION {KeysIn(x.v[i]) : i \in 1..Len(x.v)}
      [] x.t = "map"  -> {x.v[i].k : i \in 1..Len(x.v)}
                            \cup UNION {KeysIn(x.v[i].v) : i \in 1..Len(x.v)}
      [] OTHER        -> {}

\* the files the current process has written under tables/
WrittenFiles == {tableFiles[p] : p \in DOMAIN tableFiles \cap Range(writes)}

RedactionOf(f) == Get(f, "redaction", JNull)

\* the file without the entries of redaction.paths
WithoutPaths(f) ==
    IF HasKey(f, "redaction")
    THEN Put(f, "redaction", Put(RedactionOf(f), "paths", JList(<<>>)))
    ELSE f

HasRedactionBlock(f) ==
    /\ HasKey(f, "redaction")
    /\ Get(RedactionOf(f), "applied", JNull) = JBool(TRUE)
    /\ Get(RedactionOf(f), "paths", JList(<<>>)).v # <<>>

C5_AllowPiiOutput ==
    [][\A report \in engine :
          (pc = "engine" /\ spec.run.allow_pii_output /\ EngineReturns(report)) =>
              LET job == jobs[idx + 1]
                  f   == tableFiles'[TablePath(job.name)]
                  ent == Last(run_summary'.table_results)
              IN  /\ f = JsonDump(_serialize_report(report, job.name, job.modules, job.config,
                                                    build_audit_metadata))
                  /\ ~HasKey(f, "redaction")
                  /\ \A i \in 1..Len(report.results) :
                        report.results[i].message.t = "str" =>
                            report.results[i].message.v \in Leaves(f)
                  /\ Get(ent, "redaction_applied", JNull) = JBool(FALSE)]_vars

\* a file written with the e-mail address of a result message intact
C5_Witness ==
    /\ InRun /\ spec.run.allow_pii_output /\ Len(Results) = 1
    /\ Get(Results[1], "redaction_applied", JNull) = JBool(FALSE)
    /\ \E f \in WrittenFiles : "bad value a@b.no" \in Leaves(f) /\ ~HasKey(f, "redaction")

\* the number of results of a report whose status is the token, whatever the case
CountOf(report, tok) ==
    Cardinality({i \in 1..Len(report.results) :
                    Lower(StrOf(report.results[i].status)) = tok})

\* C6: a table whose engine call returned is marked failed exactly when some
\* token of fail_on is one of ok, warning, error, fail and the report has a
\* result of that status, compared without case; with fail_on = [error] the
\* counts {ok:3, warning:1} give not failed and {ok:3, error:1} give failed.
C6_FailOn ==
    [][\A report \in engine :
          (pc = "engine" /\ EngineReturns(report)) =>
              LET ent == Last(run_summary'.table_results)
                  fo  == spec.run.fail_on
              IN  /\ Failed(ent) <=>
                        \E k \in 1..Len(fo) :
                            /\ Lower(fo[k]) \in {"ok", "warning", "error", "fail"}
                            /\ CountOf(report, Lower(fo[k])) > 0
                  /\ (fo = <<"error">> /\ report = R_3ok1warn) => ~Failed(ent)
                  /\ (fo = <<"error">> /\ report = R_3ok1err) => Failed(ent)]_vars

\* fail_on = [error] and counts {ok:3, error:1}: the table is marked failed
C6_Witness ==
    /\ InRun /\ spec.run.fail_on = <<"error">> /\ Len(Results) = 1 /\ Failed(Results[1])
    /\ Get(Results[1], "status_counts", JNull)
          = JMap(<<KV("ok", JNum(3)), KV("warning", JNum(0)), KV("error", JNum(1)),
                   KV("fail", JNum(0))>>)


(***************************************************************************)
(* C11: fail_on is validated                                               *)
(***************************************************************************)
FailOnAllowed(fail_on) ==
    fail_on # <<>> /\ Range(fail_on) \subseteq _ALLOWED_STATUSES

\* C11: on every path that reaches the run loop, the command-line override
\* included, the run's fail_on is a non-empty subset of the four allowed tokens
C11_FailOnAllowed == InRun => FailOnAllowed(spec.run.fail_on)

\* C11, the paths without --fail-on: the fail_on of the run is the validated one
C11_FailOnFromYaml == InRun /\ opts.fail_on.t = "null" => FailOnAllowed(spec.run.fail_on)

\* a run whose fail_on came from the specification file, as a list or as a string
C11_Witness ==
    /\ pc = "engine" /\ opts.fail_on.t = "null"
    /\ HasKey(Get(doc, "run", JMap(<<>>)), "fail_on")
    /\ spec.run.fail_on \in {<<"error", "fail">>, <<"warning">>}


(***************************************************************************)
(* C12: what redaction removes and which paths it returns                  *)
(***************************************************************************)
IsSubstring(m, s) == \E k \in 0..(Len(s) - Len(m)) : SubSeq(s, k + 1, k + Len(m)) = m

\* the email-like, 11-digit and phone-like substrings of a text: what each of
\* the three patterns matches at any position
Matches(text) ==
    {SubSeq(text, q[2], EndAt(q[1], Chars(text), q[2])) :
        q \in {r \in {"email", "fnr", "phone"} \X (1..Len(text)) :
                  EndAt(r[1], Chars(text), r[2]) > 0}}

RECURSIVE Flatten(_)
Flatten(qs) == IF qs = <<>> THEN <<>> ELSE Head(qs) \o Flatten(Tail(qs))

\* the string leaves of a JSON value in pre-order, each with its tree path: the
\* root is "", a key is reached by `.key` (no dot at the root), an index by `[i]`
RECURSIVE StringLeaves(_, _)
StringLeaves(x, path) ==
    CASE x.t = "str"  -> <<[path |-> path, v |-> x.v]>>
      [] x.t = "list" ->
            Flatten([i \in 1..Len(x.v) |->
                        StringLeaves(x.v[i], path \o "[" \o IntStr(i - 1) \o "]")])
      [] x.t = "map"  ->
            Flatten([i \in 1..Len(x.v) |->
                        StringLeaves(x.v[i].v,
                                     IF path = "" THEN x.v[i].k ELSE path \o "." \o x.v[i].k)])
      [] OTHER        -> <<>>

\* a text is redacted when none of its matched substrings is left in the result,
\* and kept when it had none
RedactedOrKept(before, after) ==
    IF contains_obvious_pii(before)
    THEN \A m \in Matches(before) : ~IsSubstring(m, after)
    ELSE after = before

\* C12: a string for which contains_obvious_pii is true is returned without any
\* of its email-like, 11-digit or phone-like substrings, and as a leaf of a
\* payload its tree path is in the returned list; a string without such a
\* substring is returned unchanged and adds no path
C12_Redaction ==
    /\ (arg.fn = "redact_string" /\ res.t = "return") =>
            /\ res.v.pii = (Matches(arg.x.v) # {})
            /\ RedactedOrKept(arg.x.v, res.v.text)
    /\ (arg.fn = "redact_report_payload" /\ res.t = "return") =>
            LET before == StringLeaves(arg.x, "")
                after  == StringLeaves(res.v.val, "")
                hits   == {i \in 1..Len(before) : contains_obvious_pii(before[i].v)}
            IN  /\ Len(after) = Len(before)
                /\ \A i \in 1..Len(before) : RedactedOrKept(before[i].v, after[i].v)
                /\ \A i \in hits : before[i].path \in Range(res.v.paths)
                /\ Len(res.v.paths) = Cardinality(hits)

\* a phone number whose last group is also the local part of an address: the
\* address is replaced and what is left of the number is too short to match
C12_Witness ==
    /\ arg = Call("redact_string", JStr("911 22 334@x.no"))
    /\ res = Returns([pii |-> TRUE, text |-> "911 22 [REDACTED_EMAIL]"])

\* a payload with one leaf that is redacted and one that is kept
C12_PayloadWitness ==
    /\ arg = Call("redact_report_payload",
                  JMap(<<KV("value", JList(<<JStr("n/a")>>)), KV("k", JStr("+47 911 22 334"))>>))
    /\ res.t = "return" /\ res.v.paths = <<"k">>


(***************************************************************************)
(* C13: redact_report_payload preserves the structure                      *)
(***************************************************************************)
\* same lists in length and order, same keys in the same order, every leaf
\* that is no string the same, a string where there was a string
RECURSIVE SameShape(_, _)
SameShape(x, y) ==
    CASE x.t = "str"  -> y.t = "str"
      [] x.t = "list" -> /\ y.t = "list" /\ Len(y.v) = Len(x.v)
                         /\ \A i \in 1..Len(x.v) : SameShape(x.v[i], y.v[i])
      [] x.t = "map"  -> /\ y.t = "map" /\ Len(y.v) = Len(x.v)
                         /\ \A i \in 1..Len(x.v) :
                                y.v[i].k = x.v[i].k /\ SameShape(x.v[i].v, y.v[i].v)
      [] OTHER        -> y = x

PayloadCallOver == arg.fn = "redact_report_payload" /\ res # NoCall

\* C13 as stated: for every JSON value the call returns a payload of the same
\* shape in which only string leaves differ
C13_EveryTree ==
    PayloadCallOver => res.t = "return" /\ SameShape(arg.x, res.v.val)

\* C13: for every JSON value whose root is a mapping the call returns a payload
\* of the same shape in which only string leaves differ; for any other root it
\* raises AssertionError, or with assertions compiled out returns a value of
\* the same shape; the argument is the same value after the call
C13_StructurePreserving ==
    /\ [](PayloadCallOver =>
            IF arg.x.t = "map"
            THEN res.t = "return" /\ SameShape(arg.x, res.v.val)
            ELSE \/ res = Raises("AssertionError")
                 \/ res.t = "return" /\ SameShape(arg.x, res.v.val))
    /\ [][arg' = arg]_vars

\* a mapping under a key that looks like an address, two levels deep, with a
\* leaf that was rewritten and leaves that were not
C13_Witness ==
    /\ arg = Call("redact_report_payload",
                  JMap(<<KV("x@y.no", JList(<<JNum(0), JStr("a@b.no")>>))>>))
    /\ res = Returns([val   |-> JMap(<<KV("x@y.no",
                                          JList(<<JNum(0), JStr("[REDACTED_EMAIL]")>>))>>),
                      paths |-> <<"x@y.no[1]">>])


(***************************************************************************)
(* C14: a malformed specification fails before any output is touched       *)
(***************************************************************************)
\* C14: when validation raises SpecError the process ends with no output
\* directory made and no state-log, per-table or summary file written; every
\* write to the file system is made by a process whose specification validated
C14_InvalidTouchesNothing ==
    [][/\ (pc = "cli" /\ ~load_and_validate_spec(doc).ok) =>
            (pc' = "exit" /\ disk' = disk /\ writes' = writes)
       /\ (disk' # disk \/ Len(writes') > Len(writes)) =>
            (pc \in {"run", "loop", "engine", "finish"} /\ spec # NoSpec)]_vars

\* the second process has ended on a specification that does not validate, and
\* the files of the first are as it left them
C14_Witness ==
    /\ pc = "exit" /\ rc = 1 /\ spec = NoSpec /\ writes = <<>>
    /\ runs = 2 /\ logStart = Len(stateLog) /\ stateLog # <<>>
    /\ outDir = TRUE /\ summaryFile # <<>>

\* the first process has ended on a specification whose `tables` has an entry
\* without a name, and there is no output directory
C14_FirstRunWitness ==
    /\ pc = "exit" /\ rc = 1 /\ spec = NoSpec /\ writes = <<>>
    /\ doc.t = "map" /\ Get(doc, "tables", JNull).t = "list"
    /\ Get(doc, "tables", JNull).v # <<>>
    /\ outDir = FALSE /\ stateLog = <<>> /\ summaryFile = <<>> /\ DOMAIN tableFiles = {}


(***************************************************************************)
(* C15, C16: the per-table files of a run                                  *)
(***************************************************************************)
\* the entries of table_results that record a written file for the table
FilesWrittenFor(name) ==
    {k \in 1..Len(Results) :
        TableOf(Results[k]) = JStr(name) /\ Get(Results[k], "output_file", JNull) # JNull}

\* C15: in a run the per-table file of a table is written at most once, plans
\* with a repeated table name included, and a run with --resume does not write
\* the file of a table that the log it found marks completed
C15_WrittenOnce ==
    (InRun \/ Returned) =>
        /\ \A i \in 1..Len(jobs) : Cardinality(FilesWrittenFor(jobs[i].name)) <= 1
        /\ opts.resume => \A n \in CompletedBefore : TablePath(n) \notin Range(writes)

\* C15, the part that holds: a run with --resume writes no file for a table that
\* the log it found marks completed
C15_ResumeWritesNoCompleted ==
    ((InRun \/ Returned) /\ opts.resume) =>
        \A n \in CompletedBefore : FilesWrittenFor(n) = {}

\* C16: two distinct table names of a plan have distinct file paths, and the
\* file a table's result entry names holds the report of that table
C16_OneFilePerTable ==
    (InRun \/ Returned) =>
        /\ \A i, j \in 1..Len(jobs) :
              jobs[i].name # jobs[j].name => TablePath(jobs[i].name) # TablePath(jobs[j].name)
        /\ \A k \in 1..Len(Results) :
              Get(Results[k], "output_file", JNull) # JNull =>
                  Get(Get(tableFiles[Get(Results[k], "output_file", JNull).v],
                          "table", JNull), "name", JNull) = TableOf(Results[k])

(***************************************************************************)
(* C19: a table name that occurs twice in a plan                           *)
(***************************************************************************)
\* the number of records the run appended for the jobs before the j-th
RecordsBefore(j) ==
    2 * Cardinality({k \in 1..(j - 1) : jobs[k].name \notin Skippable})
        + Cardinality({k \in 1..(j - 1) : jobs[k].name \in Skippable})

\* the first record the run appended for the j-th job
FirstRecordOf(j) == NewRecords[RecordsBefore(j) + 1]

\* the name is marked completed when the loop comes to the j-th job: by the log
\* a run with --resume found, or by a record of this run
MarkedCompleted(name, j) ==
    \/ name \in Skippable
    \/ \E k \in 1..RecordsBefore(j) :
          StatusOf(NewRecords[k]) = JStr("completed") /\ TableOf(NewRecords[k]) = JStr(name)

Occurrences(name) == {k \in 1..idx : jobs[k].name = name}

C19_ResumeWitness ==
    /\ Returned /\ opts.resume /\ Len(jobs) >= 2 /\ jobs[1].name = jobs[2].name
    /\ IsSkip(NewRecords[1], jobs[1].name) /\ IsSkip(NewRecords[2], jobs[1].name)

(***************************************************************************)
(* C17: the jobs are gone through in plan order, one at a time             *)
(***************************************************************************)
\* the record is the `started` event of the j-th job of the plan
IsStarted(rec, j) ==
    /\ StatusOf(rec) = JStr("started")
    /\ TableOf(rec) = JStr(jobs[j].name)
    /\ Get(rec, "index", JNull) = JNum(j)
    /\ Get(rec, "total", JNull) = JNum(Len(jobs))

\* the records the run appended for the j-th job, which the loop has left: one
\* `skipped` record, or `started` and right after it `completed` or `error`
HandledInPlace(j) ==
    IF jobs[j].name \in Skippable
    THEN IsSkip(FirstRecordOf(j), jobs[j].name)
    ELSE /\ IsStarted(FirstRecordOf(j), j)
         /\ StatusOf(NewRecords[RecordsBefore(j) + 2]) \in {JStr("completed"), JStr("error")}
         /\ TableOf(NewRecords[RecordsBefore(j) + 2]) = JStr(jobs[j].name)

\* C17: the records a run appends are those of job 1, then those of job 2, and
\* so on; a `started` record carries the 1-based index of its job and the length
\* of the plan, and is directly followed by the `completed` or `error` record of
\* the same table; while the engine works on a job the last record is that
\* job's `started`; table_results names the executed tables in plan order
C17_PlanOrder ==
    (InRun \/ Returned) =>
        /\ Len(NewRecords) = RecordsBefore(idx + 1) + (IF pc = "engine" THEN 1 ELSE 0)
        /\ \A j \in 1..idx : HandledInPlace(j)
        /\ pc = "engine" => IsStarted(NewRecords[Len(NewRecords)], idx + 1)
        /\ [k \in 1..Len(Results) |-> TableOf(Results[k]).v] = Executed(SubSeq(jobs, 1, idx))

\* a step of the loop appends at most one record, at the end of the log, and
\* moves on by at most one job
C17_OneAtATime ==
    [][InRun =>
         /\ idx' \in {idx, idx + 1}
         /\ Len(stateLog') <= Len(stateLog) + 1
         /\ SubSeq(stateLog', 1, Len(stateLog)) = stateLog]_vars

\* a run went through three jobs of two tables: skipped the first, executed the
\* second and the third
C17_Witness ==
    /\ Returned /\ idx = 3 /\ Len(jobs) = 3
    /\ jobs[1].name # jobs[2].name
    /\ Len(NewRecords) = 5
    /\ IsSkip(NewRecords[1], jobs[1].name)
    /\ IsStarted(NewRecords[2], 2) /\ StatusOf(NewRecords[3]) = JStr("completed")
    /\ IsStarted(NewRecords[4], 3) /\ StatusOf(NewRecords[5]) = JStr("error")

\* the engine is at work on the second job of the plan
C17_EngineWitness ==
    /\ pc = "engine" /\ idx = 1 /\ IsStarted(NewRecords[Len(NewRecords)], 2)

(***************************************************************************)
(* C18: the run summary is written once, last                              *)
(***************************************************************************)
\* how many writes of the process went to the path
WritesTo(path) == Cardinality({k \in 1..Len(writes) : writes[k] = path})

\* how many records of the run have the status
RecordsWith(status) ==
    Cardinality({k \in 1..Len(NewRecords) : StatusOf(NewRecords[k]) = JStr(status)})

\* the summary on disk is the summary of this run, stamped, with an entry for
\* every table the run completed or saw fail with an exception, and its counters
\* agree with the records of the run
SummaryReflectsRun ==
    /\ summaryFile = <<run_summary>>
    /\ run_summary.run.finished_utc = _utc_now
    /\ run_summary.tables_total = Len(jobs)
    /\ [k \in 1..Len(Results) |-> TableOf(Results[k]).v] = calls
    /\ Len(Results) = RecordsWith("completed") + RecordsWith("error")
    /\ run_summary.tables_completed = RecordsWith("completed")
    /\ run_summary.tables_skipped = RecordsWith("skipped")
    /\ run_summary.tables_failed = Cardinality({k \in 1..Len(Results) : Failed(Results[k])})

\* C18: while the loop of a run goes on the summary is not written; every run
\* that has begun comes to its end, whichever way the loop is left; at the end
\* the summary has been written once, as the last write of the run, it carries
\* finished_utc and holds every table result of the run
C18_SummaryOnceAtEnd ==
    /\ [](InRun => WritesTo(SummaryPath) = 0)
    /\ [](Returned => /\ WritesTo(SummaryPath) = 1
                      /\ writes[Len(writes)] = SummaryPath
                      /\ SummaryReflectsRun)
    /\ [](pc = "run" => <>Returned)

\* the loop was left early: the first table failed, continue_on_error is false,
\* a job of the plan was never reached, and the summary was still written last
C18_Witness ==
    /\ Returned /\ ~spec.run.continue_on_error
    /\ idx < Len(jobs) /\ Len(Results) = 1 /\ Failed(Results[1])
    /\ writes[Len(writes)] = SummaryPath /\ SummaryReflectsRun

\* every table of the plan was skipped
C18_AllSkippedWitness ==
    /\ Returned /\ Len(jobs) >= 2 /\ run_summary.tables_skipped = Len(jobs)
    /\ Results = <<>> /\ SummaryReflectsRun

\* the loop ran to the end of the plan
C18_NormalWitness ==
    /\ Returned /\ idx = Len(jobs) /\ Len(Results) >= 2 /\ ~overall_failed
    /\ SummaryReflectsRun

(***************************************************************************)
(* C20: the modules of a job                                               *)
(***************************************************************************)
\* C20: every job of a specification that validated has at least one module,
\* and every module it has is a non-empty identifier
C20_ModulesNonEmpty ==
    InRun => \A i \in 1..Len(jobs) :
                /\ jobs[i].modules # <<>>
                /\ \A k \in 1..Len(jobs[i].modules) : jobs[i].modules[k] # ""

\* C20, the part that holds: the modules a job has are non-empty identifiers,
\* and an entry without `modules` gets the one built-in module
C20_ModulesStripped ==
    InRun => \A i \in 1..Len(jobs) :
                /\ \A k \in 1..Len(jobs[i].modules) : jobs[i].modules[k] # ""
                /\ Get(TablesIn(doc).v[i], "modules", JNull) = JNull
                      => jobs[i].modules = <<"core_quality">>

(***************************************************************************)
(* C21: the counters of the summary and its table_results                  *)
(***************************************************************************)
\* the entries of a summary that name a written file, and those that failed
WithFile(summary) ==
    {k \in 1..Len(summary.table_results) :
        Get(summary.table_results[k], "output_file", JNull) # JNull}

FailedIn(summary) ==
    {k \in 1..Len(summary.table_results) : Failed(summary.table_results[k])}

\* the counters of the summary agree with its entries after n jobs of the plan
CountersAgree(summary, n) ==
    /\ summary.tables_total = Len(jobs)
    /\ summary.tables_completed = Cardinality(WithFile(summary))
    /\ summary.tables_failed = Cardinality(FailedIn(summary))
    /\ [k \in 1..Len(summary.table_results) |-> TableOf(summary.table_results[k]).v]
          = Executed(SubSeq(jobs, 1, n))
    /\ summary.tables_skipped + Len(summary.table_results) = n
    /\ n <= summary.tables_total

\* C21: at every pass of the loop, and in the summary on disk after the run,
\* tables_completed is the number of entries with an output file, tables_failed
\* the number of entries with failed = true, the entries are those of the
\* executed jobs, one each, and skipped plus entries is the number of jobs the
\* loop has gone through: at most tables_total, and equal to it when the loop
\* went to the end of the plan
C21_CountersConsistent ==
    /\ InRun => CountersAgree(run_summary, idx)
    /\ Returned => /\ Len(summaryFile) = 1
                   /\ CountersAgree(summaryFile[1], idx)
                   /\ idx < Len(jobs) =>
                         /\ ~spec.run.continue_on_error
                         /\ Failed(Results[Len(Results)])

\* a run that skipped one table, wrote the file of a second that failed, and
\* had the engine raise for the third
C21_Witness ==
    /\ Returned /\ idx = 3 /\ Len(jobs) = 3
    /\ summaryFile[1].tables_skipped = 1
    /\ summaryFile[1].tables_completed = 1
    /\ summaryFile[1].tables_failed = 2
    /\ Len(Results) = 2
    /\ WithFile(summaryFile[1]) = {1} /\ FailedIn(summaryFile[1]) = {1, 2}

\* the loop was stopped early: fewer tables counted than planned
C21_EarlyStopWitness ==
    /\ Returned /\ idx < Len(jobs)
    /\ summaryFile[1].tables_skipped + Len(Results) < summaryFile[1].tables_total

(***************************************************************************)
(* C22: what a run with --resume makes of the records of earlier runs      *)
(***************************************************************************)
\* the records of the log found at the start that are about the table
OldRecordsOf(name) == {k \in 1..Len(OldLog) : TableOf(OldLog[k]) = JStr(name)}

\* an earlier run recorded the table as completed with failed = true
CompletedFailedBefore(name) ==
    \E k \in OldRecordsOf(name) :
        /\ StatusOf(OldLog[k]) = JStr("completed")
        /\ Get(OldLog[k], "failed", JNull) = JBool(TRUE)

\* the earlier runs left records about the table, `started` and `error` only
OnlyStartedOrError(name) ==
    /\ OldRecordsOf(name) # {}
    /\ \A k \in OldRecordsOf(name) : StatusOf(OldLog[k]) \in {JStr("started"), JStr("error")}

\* C22: in a run with --resume, a job the loop comes to is skipped exactly when
\* the log found at the start has a `completed` record for its table, whatever
\* the `failed` flag of that record: it gets a `skipped` record, the engine is
\* not invoked for it and it has no entry in table_results, so that
\* tables_failed and the return code count the tables executed in this run
\* only; a job whose table has no `completed` record, earlier `started` and
\* `error` records or not, gets a `started` record and goes to the engine
C22_SkipIgnoresFailedFlag ==
    ((InRun \/ Returned) /\ opts.resume) =>
        /\ \A j \in 1..idx :
              IF jobs[j].name \in CompletedBefore
              THEN /\ IsSkip(FirstRecordOf(j), jobs[j].name)
                   /\ jobs[j].name \notin Range(calls)
                   /\ \A k \in 1..Len(Results) : TableOf(Results[k]) # JStr(jobs[j].name)
              ELSE /\ IsStarted(FirstRecordOf(j), j)
                   /\ jobs[j].name \in Range(calls)
        /\ run_summary.tables_failed = Cardinality(FailedIn(run_summary))
        /\ Returned => rc = (IF FailedIn(run_summary) = {} THEN 0 ELSE 1)

\* a resumed run skipped a table recorded as completed with failed = true,
\* executed again a table that had only `started` and `error` records, counted
\* no failed table and returned 0
C22_Witness ==
    /\ Returned /\ opts.resume /\ idx = Len(jobs) /\ rc = 0
    /\ run_summary.tables_failed = 0
    /\ \E i, j \in 1..idx :
          /\ CompletedFailedBefore(jobs[i].name)
          /\ IsSkip(FirstRecordOf(i), jobs[i].name)
          /\ OnlyStartedOrError(jobs[j].name)
          /\ IsStarted(FirstRecordOf(j), j)
          /\ jobs[j].name \in Range(calls)

====
